---------------------------- MODULE Spec2Model ----------------------------
(***************************************************************************)
(* The coin-selection harness of examples/bitcoin_crate/src/main.rs:       *)
(* read_json_file, json_to_transaction, create_outputgroup,                *)
(* create_select_options, perform_select_coin and main, as one state       *)
(* machine.  Text is a sequence of one-character strings.  64-bit amounts  *)
(* are scaled down to SatBits bits, and the 5*10^9 bound of target_value   *)
(* is kept exact as a two-limb number, because TLC's integers are 32-bit.  *)
(***************************************************************************)
EXTENDS Integers, Sequences, FiniteSets, TLC

VARIABLES
    pc,                     \* the statement main (or the function it called) is at
    file,                   \* examples/bitcoin_crate/txdata/transactions.json
    stdout,                 \* the prefixes of the lines main printed on its way out
    err,                    \* the error value a function returned, NoErr if none
    tx_vec,                 \* json_to_transaction: transactions decoded so far
    tx_in_vec,              \* json_to_transaction: inputs of the record being decoded
    tx_out_vec,             \* json_to_transaction: outputs of the record being decoded
    examined,               \* conversions attempted so far: <<record, list, index, field>>
    transactions,           \* main: the value json_to_transaction returned
    unique_numbers,         \* create_outputgroup: the ordinals in use
    creation_sequence,      \* create_outputgroup: the ordinal drawn last
    output_group_vec,       \* create_outputgroup: the units built so far
    overflow_checks,        \* the build's overflow-checks setting, fixed at its first use
    utxos,                  \* main: the value create_outputgroup returned
    coin_select_options_vec,\* create_select_options / main: the configurations
    select_calls,           \* perform_select_coin: index of each configuration passed to select_coin
    results                 \* perform_select_coin: outcome reported for each call

vars == <<pc, file, stdout, err, tx_vec, tx_in_vec, tx_out_vec, examined,
          transactions, unique_numbers, creation_sequence, output_group_vec,
          overflow_checks, utxos, coin_select_options_vec, select_calls, results>>

decode_vars == <<tx_vec, tx_in_vec, tx_out_vec, examined, transactions>>
build_vars == <<unique_numbers, creation_sequence, output_group_vec, overflow_checks, utxos>>
trial_vars == <<coin_select_options_vec, select_calls, results>>

-----------------------------------------------------------------------------
(* Bounds of the model. *)

\* Most records in an input file of the whole-program specification.
MaxFileTx == 2
\* Most records in an input text of the decoder's specification.
MaxDecodeTx == 2
\* Most transactions in a batch of the builder's specification.
MaxBuildTx == 3
\* Width in bits of the scaled-down stand-in for u64 satoshi amounts.
SatBits == 4

-----------------------------------------------------------------------------
(* Values *)

NoErr == [source |-> "none"]
Unset == "unset"
NoSeq == -1

SatModulus == 2 ^ SatBits
\* Amount::from_btc rejects amounts above i64::MAX satoshi: half the u64 range.
AmountMaxSat == (SatModulus \div 2) - 1

HexDigits == {"0", "1", "2", "3", "4", "5", "6", "7", "8", "9",
              "a", "b", "c", "d", "e", "f", "A", "B", "C", "D", "E", "F"}
IsHex(s) == \A i \in 1..Len(s) : s[i] \in HexDigits

\* A Txid is a 32-byte hash written as 64 hex digits.
TxidHexLen == 2 * 32
\* A Sequence is a u32 written with at most 8 significant hex digits.
SequenceHexLen == 2 * 4

Ok(v) == [ok |-> TRUE, val |-> v]
Err(source, reason) == [ok |-> FALSE, err |-> [source |-> source, reason |-> reason]]

\* Txid::from_str (line 66)
Txid_from_str(s) ==
    IF Len(s) # TxidHexLen THEN Err("Txid::from_str", "InvalidLength")
    ELSE IF ~IsHex(s) THEN Err("Txid::from_str", "InvalidChar")
    ELSE Ok([i \in 1..(TxidHexLen \div 2) |-> <<s[2 * i - 1], s[2 * i]>>])

\* ScriptBuf::from_hex (lines 68 and 85): pairs of hex digits, so an even length.
ScriptBuf_from_hex(s) ==
    IF ~IsHex(s) THEN Err("ScriptBuf::from_hex", "InvalidChar")
    ELSE IF Len(s) % 2 # 0 THEN Err("ScriptBuf::from_hex", "OddLengthString")
    ELSE Ok([i \in 1..(Len(s) \div 2) |-> <<s[2 * i - 1], s[2 * i]>>])

\* Sequence::from_hex (line 69): a hex u32; the digits are kept, not the number.
Sequence_from_hex(s) ==
    IF Len(s) = 0 THEN Err("Sequence::from_hex", "Empty")
    ELSE IF ~IsHex(s) THEN Err("Sequence::from_hex", "InvalidDigit")
    ELSE IF Len(s) > SequenceHexLen THEN Err("Sequence::from_hex", "PosOverflow")
    ELSE Ok(s)

\* The unit JSON amounts are written in: tenths of a satoshi.
TenthsPerSat == 10

\* Amount::from_btc (line 84).  A JSON amount is written here in tenths of a
\* satoshi (1e-9 BTC): the conversion divides by ten and rejects what is
\* negative, finer than one satoshi, or too big.
Amount_from_btc(v) ==
    IF v < 0 THEN Err("Amount::from_btc", "Negative")
    ELSE IF v % TenthsPerSat # 0 THEN Err("Amount::from_btc", "TooPrecise")
    ELSE IF v \div TenthsPerSat > AmountMaxSat THEN Err("Amount::from_btc", "TooBig")
    ELSE Ok(v \div TenthsPerSat)

\* Witness::from_slice (lines 71-73): each string's bytes, taken as they are.
Witness_from_slice(w) == w

RECURSIVE MaxInputs(_)
MaxInputs(txs) ==
    IF txs = <<>> THEN 0
    ELSE LET n == Len(Head(txs).inputs)
             m == MaxInputs(Tail(txs))
         IN  IF n > m THEN n ELSE m

\* serde's deserialization of one TxInJson (lines 20-28): vout must be a u32.
\* Only the sign can be wrong here; the other fields are strings in every file.
TxInJson_deserializes(tx_inp) == tx_inp.vout >= 0

\* serde_json::from_str::<Vec<TransactionJson>> (line 60): the place, in document
\* order, of the first field of the wrong type; <<>> when there is none.
from_str_first_error(txs) ==
    LET bad == {p \in {<<r, i>> : r \in 1..Len(txs), i \in 1..MaxInputs(txs)} :
                   /\ p[2] <= Len(txs[p[1]].inputs)
                   /\ ~TxInJson_deserializes(txs[p[1]].inputs[p[2]])}
        first == CHOOSE p \in bad :
                    \A q \in bad : p[1] < q[1] \/ (p[1] = q[1] /\ p[2] <= q[2])
    IN  IF bad = {} THEN <<>> ELSE <<first[1], "inputs", first[2], "vout">>

-----------------------------------------------------------------------------
(* The input texts the specifications start from. *)

TxInJson(txid, vout, script_sig, sequence, witness) ==
    [txid |-> txid, vout |-> vout, script_sig |-> script_sig,
     sequence |-> sequence, witness |-> witness]
TxOutJson(value, script_pubkey) == [value |-> value, script_pubkey |-> script_pubkey]
TransactionJson(inputs, outputs) == [inputs |-> inputs, outputs |-> outputs]

GoodTxid == [i \in 1..TxidHexLen |-> "a"]
ShortTxid == <<"a", "b">>
GoodScript == <<"5", "1">>
OddScript == <<"5", "1", "a">>
GoodSequence == <<"f", "f", "f", "f", "f", "f", "f", "f">>
BadSequence == <<"z">>
GoodInput(vout) == TxInJson(GoodTxid, vout, GoodScript, GoodSequence, <<>>)
\* One satoshi, two satoshi, and the largest amount from_btc accepts.
OneSat == 1 * TenthsPerSat
TwoSat == 2 * OneSat
BigAmount == AmountMaxSat * OneSat
\* Half a satoshi: finer than the format allows.
HalfSat == OneSat \div 2

DecodeInputLists ==
    { <<>>,
      <<GoodInput(0), GoodInput(1)>>,
      <<TxInJson(ShortTxid, 0, GoodScript, BadSequence, <<>>)>>,
      <<GoodInput(0), TxInJson(GoodTxid, 1, OddScript, GoodSequence, <<>>)>>,
      <<TxInJson(GoodTxid, 0 - 1, GoodScript, GoodSequence, <<>>)>> }
DecodeOutputLists ==
    { <<TxOutJson(OneSat, GoodScript)>>,
      <<TxOutJson(OneSat, GoodScript), TxOutJson(TwoSat, <<>>)>>,
      <<TxOutJson(HalfSat, OddScript)>>,
      <<TxOutJson(0 - OneSat, GoodScript)>>,
      <<TxOutJson(OneSat, GoodScript), TxOutJson(OneSat, OddScript)>> }
DecodeRecords ==
    {TransactionJson(i, o) : i \in DecodeInputLists, o \in DecodeOutputLists}

FileRecords ==
    { TransactionJson(<<GoodInput(0)>>,
                      <<TxOutJson(OneSat, GoodScript), TxOutJson(TwoSat, GoodScript)>>),
      TransactionJson(<<TxInJson(GoodTxid, 1, <<>>, GoodSequence, <<<<"w">>>>)>>,
                      <<TxOutJson(BigAmount, GoodScript), TxOutJson(BigAmount, GoodScript),
                        TxOutJson(BigAmount, GoodScript)>>),
      TransactionJson(<<GoodInput(0)>>, <<TxOutJson(OneSat, OddScript)>>) }

SeqsUpTo(S, n) == UNION {[1..k -> S] : k \in 0..n}

InputFile(status, txs) == [status |-> status, txs |-> txs]

-----------------------------------------------------------------------------
(* main's exits *)

\* main, lines 202-205: print the error and return.
main_on_read_error == "exit"
\* A main that prints the parse error and goes on with what it has.
main_ignores_parse_error == "create_outputgroup"
\* main, lines 197-200: print the error and return.
main_on_parse_error == "exit"

Fail(line, e, target) ==
    /\ pc' = target
    /\ err' = e
    /\ stdout' = Append(stdout, line)

\* A panic unwinds main: the process ends with nothing more done.
Panic(message) ==
    /\ pc' = "panicked"
    /\ stdout' = Append(stdout, message)
    /\ UNCHANGED err

-----------------------------------------------------------------------------
(* read_json_file, lines 44-56, called at line 194 *)

read_json_file ==
    /\ pc = "main"
    /\ IF file.status = "missing"
       THEN Fail("Error reading file", [source |-> "std::io", reason |-> "File not found"],
                 main_on_read_error)
       ELSE IF file.status = "unreadable"
       THEN Fail("Error reading file", [source |-> "std::io", reason |-> "read_to_string"],
                 main_on_read_error)
       ELSE pc' = "json_to_transaction" /\ UNCHANGED <<err, stdout>>
    /\ UNCHANGED <<file, decode_vars, build_vars, trial_vars>>

-----------------------------------------------------------------------------
(* json_to_transaction, lines 58-101, called at line 195 *)

\* A decoder that stops at the invalid field and returns what it has decoded.
ParseErrorKeepsDecoded(e, seen) ==
    /\ pc' = "create_outputgroup"
    /\ transactions' = tx_vec
    /\ examined' = seen
    /\ tx_vec' = <<>> /\ tx_in_vec' = <<>> /\ tx_out_vec' = <<>>
    /\ UNCHANGED <<file, stdout, err, build_vars, trial_vars>>

\* A decoder that replaces the conversion's error by one of its own.
ParseErrorOwnError(e, seen) ==
    /\ Fail("Error parsing json",
            [source |-> "json_to_transaction", reason |-> "malformed record"],
            main_on_parse_error)
    /\ examined' = seen
    /\ tx_vec' = <<>> /\ tx_in_vec' = <<>> /\ tx_out_vec' = <<>>
    /\ UNCHANGED <<file, transactions, build_vars, trial_vars>>

\* A `?` that returns early: the locals are dropped and main reports the error.
ParseError(e, seen) ==
    /\ Fail("Error parsing json", e, main_on_parse_error)
    /\ examined' = seen
    /\ tx_vec' = <<>> /\ tx_in_vec' = <<>> /\ tx_out_vec' = <<>>
    /\ UNCHANGED <<file, transactions, build_vars, trial_vars>>

\* line 60
json_to_transaction ==
    /\ pc = "json_to_transaction"
    /\ LET at == from_str_first_error(file.txs)
       IN  IF at # <<>>
           THEN ParseError([source |-> "serde_json::from_str",
                            reason |-> "invalid value, expected u32", position |-> at],
                           examined)
           ELSE /\ pc' = "for_tx_json"
                /\ tx_vec' = <<>>
                /\ UNCHANGED <<file, stdout, err, tx_in_vec, tx_out_vec, examined,
                               transactions, build_vars, trial_vars>>

\* lines 63-64: the next record
for_tx_json ==
    /\ pc = "for_tx_json"
    /\ Len(tx_vec) < Len(file.txs)
    /\ tx_in_vec' = <<>>
    /\ pc' = "for_tx_inp"
    /\ UNCHANGED <<file, stdout, err, tx_vec, tx_out_vec, examined, transactions,
                   build_vars, trial_vars>>

\* lines 65-80: one input, its fields converted in the order txid, script_sig, sequence
for_tx_inp ==
    /\ pc = "for_tx_inp"
    /\ Len(tx_in_vec) < Len(file.txs[Len(tx_vec) + 1].inputs)
    /\ LET r == Len(tx_vec) + 1
           i == Len(tx_in_vec) + 1
           tx_inp == file.txs[r].inputs[i]
           txid == Txid_from_str(tx_inp.txid)
           script_signature == ScriptBuf_from_hex(tx_inp.script_sig)
           nsequence == Sequence_from_hex(tx_inp.sequence)
           at(f) == <<r, "inputs", i, f>>
       IN  IF ~txid.ok
           THEN ParseError(txid.err, Append(examined, at("txid")))
           ELSE IF ~script_signature.ok
           THEN ParseError(script_signature.err,
                           examined \o <<at("txid"), at("script_sig")>>)
           ELSE IF ~nsequence.ok
           THEN ParseError(nsequence.err,
                           examined \o <<at("txid"), at("script_sig"), at("sequence")>>)
           ELSE /\ tx_in_vec' = Append(tx_in_vec,
                        [previous_output |-> [txid |-> txid.val, vout |-> tx_inp.vout],
                         script_sig |-> script_signature.val,
                         sequence |-> nsequence.val,
                         witness |-> Witness_from_slice(tx_inp.witness)])
                /\ examined' = examined \o <<at("txid"), at("script_sig"), at("sequence")>>
                /\ UNCHANGED <<pc, file, stdout, err, tx_vec, tx_out_vec, transactions,
                               build_vars, trial_vars>>

\* line 82: the inputs are done
for_tx_inp_end ==
    /\ pc = "for_tx_inp"
    /\ Len(tx_in_vec) = Len(file.txs[Len(tx_vec) + 1].inputs)
    /\ tx_out_vec' = <<>>
    /\ pc' = "for_tx_op"
    /\ UNCHANGED <<file, stdout, err, tx_vec, tx_in_vec, examined, transactions,
                   build_vars, trial_vars>>

\* lines 83-90: one output, its fields converted in the order value, script_pubkey
for_tx_op ==
    /\ pc = "for_tx_op"
    /\ Len(tx_out_vec) < Len(file.txs[Len(tx_vec) + 1].outputs)
    /\ LET r == Len(tx_vec) + 1
           i == Len(tx_out_vec) + 1
           tx_op == file.txs[r].outputs[i]
           op_amount == Amount_from_btc(tx_op.value)
           op_script_pubkey == ScriptBuf_from_hex(tx_op.script_pubkey)
           at(f) == <<r, "outputs", i, f>>
       IN  IF ~op_amount.ok
           THEN ParseError(op_amount.err, Append(examined, at("value")))
           ELSE IF ~op_script_pubkey.ok
           THEN ParseError(op_script_pubkey.err,
                           examined \o <<at("value"), at("script_pubkey")>>)
           ELSE /\ tx_out_vec' = Append(tx_out_vec,
                        [value |-> op_amount.val, script_pubkey |-> op_script_pubkey.val])
                /\ examined' = examined \o <<at("value"), at("script_pubkey")>>
                /\ UNCHANGED <<pc, file, stdout, err, tx_vec, tx_in_vec, transactions,
                               build_vars, trial_vars>>

\* lines 92-97: the record's transaction is pushed
tx_vec_push ==
    /\ pc = "for_tx_op"
    /\ Len(tx_out_vec) = Len(file.txs[Len(tx_vec) + 1].outputs)
    /\ tx_vec' = Append(tx_vec, [version |-> 2, lock_time |-> 0,
                                 input |-> tx_in_vec, output |-> tx_out_vec])
    /\ tx_in_vec' = <<>>
    /\ tx_out_vec' = <<>>
    /\ pc' = "for_tx_json"
    /\ UNCHANGED <<file, stdout, err, examined, transactions, build_vars, trial_vars>>

\* line 100, and main's line 196: Ok(tx_vec) becomes main's transactions
json_to_transaction_return ==
    /\ pc = "for_tx_json"
    /\ Len(tx_vec) = Len(file.txs)
    /\ transactions' = tx_vec
    /\ tx_vec' = <<>>
    /\ pc' = "create_outputgroup"
    /\ UNCHANGED <<file, stdout, err, tx_in_vec, tx_out_vec, examined,
                   build_vars, trial_vars>>

-----------------------------------------------------------------------------
(* create_outputgroup, lines 103-128, called at line 209 *)

RECURSIVE SumSeq(_)
SumSeq(ns) == IF ns = <<>> THEN 0 ELSE Head(ns) + SumSeq(Tail(ns))

\* tx.output.iter().map(|op| op.value.to_sat()).sum() of line 120, as an exact
\* mathematical integer.
SumSat(output) == SumSeq([i \in 1..Len(output) |-> output[i].value])

\* Transaction::total_size (line 121): the bytes of the wire form.  Every count
\* and length of the model fits the one-byte form of a compact size.
WitnessSize(txin) == 1 + SumSeq([i \in 1..Len(txin.witness) |-> 1 + Len(txin.witness[i])])
TxInSize(txin) == 32 + 4 + 1 + Len(txin.script_sig) + 4
TxOutSize(txout) == 8 + 1 + Len(txout.script_pubkey)
total_size(tx) ==
    LET segwit == \E i \in 1..Len(tx.input) : tx.input[i].witness # <<>>
    IN  4 + 1 + SumSeq([i \in 1..Len(tx.input) |-> TxInSize(tx.input[i])])
          + 1 + SumSeq([i \in 1..Len(tx.output) |-> TxOutSize(tx.output[i])]) + 4
          + (IF segwit
             THEN 2 + SumSeq([i \in 1..Len(tx.input) |-> WitnessSize(tx.input[i])])
             ELSE 0)

\* rng.gen_range(low..high): every value the random source can return.
gen_range(low, high) == low..(high - 1)

\* The loop variable `tx` of line 111.
total_transactions == Len(transactions)

\* lines 107-110
create_outputgroup ==
    /\ pc = "create_outputgroup"
    /\ output_group_vec' = <<>>
    /\ unique_numbers' = {}
    /\ pc' = "for_tx"
    /\ UNCHANGED <<file, stdout, err, decode_vars, creation_sequence, overflow_checks,
                   utxos, trial_vars>>

\* A loop that draws before it looks whether a transaction is left.
for_tx_draws_first ==
    /\ pc = "for_tx"
    /\ Len(output_group_vec) <= total_transactions
    /\ creation_sequence' = NoSeq
    /\ pc' = "loop"
    /\ UNCHANGED <<file, stdout, err, decode_vars, unique_numbers, output_group_vec,
                   overflow_checks, utxos, trial_vars>>

\* lines 111-112: the next transaction; creation_sequence is declared, not yet assigned
for_tx ==
    /\ pc = "for_tx"
    /\ Len(output_group_vec) < total_transactions
    /\ creation_sequence' = NoSeq
    /\ pc' = "loop"
    /\ UNCHANGED <<file, stdout, err, decode_vars, unique_numbers, output_group_vec,
                   overflow_checks, utxos, trial_vars>>

\* unique_numbers.insert(creation_sequence), line 115: true when the value is new
insert_ignores_duplicates(drawn) == TRUE
insert(drawn) == drawn \notin unique_numbers

\* lines 113-118: one draw; gen_range panics on an empty range
loop_gen_range ==
    /\ pc = "loop"
    /\ IF gen_range(0, total_transactions) = {}
       THEN /\ Panic("cannot sample empty range")
            /\ UNCHANGED <<creation_sequence, unique_numbers>>
       ELSE \E drawn \in gen_range(0, total_transactions) :
               /\ creation_sequence' = drawn
               /\ unique_numbers' = unique_numbers \cup {drawn}
               /\ pc' = IF insert(drawn) THEN "push" ELSE "loop"
               /\ UNCHANGED <<stdout, err>>
    /\ UNCHANGED <<file, decode_vars, output_group_vec, overflow_checks, utxos, trial_vars>>

OutputGroup(value, weight, input_count, sequence) ==
    [value |-> value, weight |-> weight, input_count |-> input_count,
     creation_sequence |-> sequence]

\* lines 119-124.  Iterator::sum over u64 follows the build's overflow checks: it
\* panics on overflow when they are on and wraps when they are off.
output_group_vec_push ==
    /\ pc = "push"
    /\ LET tx == transactions[Len(output_group_vec) + 1]
           sum == SumSat(tx.output)
           unit(value) == OutputGroup(value, total_size(tx), Len(tx.input), creation_sequence)
       IN  IF sum < SatModulus
           THEN /\ output_group_vec' = Append(output_group_vec, unit(sum))
                /\ pc' = "for_tx"
                /\ UNCHANGED <<stdout, err, overflow_checks>>
           ELSE \E checks \in (IF overflow_checks = Unset THEN {"off", "on"}
                                                            ELSE {overflow_checks}) :
                   /\ overflow_checks' = checks
                   /\ IF checks = "on"
                      THEN Panic("attempt to add with overflow")
                           /\ UNCHANGED output_group_vec
                      ELSE /\ output_group_vec' = Append(output_group_vec, unit(sum % SatModulus))
                           /\ pc' = "for_tx"
                           /\ UNCHANGED <<stdout, err>>
    /\ UNCHANGED <<file, decode_vars, unique_numbers, creation_sequence, utxos, trial_vars>>

\* line 127, and main's line 210: Ok(output_group_vec) becomes main's utxos.  The
\* function has no Err return, so main's lines 211-214 never run.
create_outputgroup_return ==
    /\ pc = "for_tx"
    /\ Len(output_group_vec) = total_transactions
    /\ utxos' = output_group_vec
    /\ output_group_vec' = <<>>
    /\ pc' = "create_select_options"
    /\ UNCHANGED <<file, stdout, err, decode_vars, unique_numbers, creation_sequence,
                   overflow_checks, trial_vars>>

-----------------------------------------------------------------------------
(* create_select_options, lines 130-157, called at line 218 *)

\* Numbers past TLC's 32-bit integers are written <<high, low>> in base 10^5.
Limb == 10 ^ 5
Wide(n) == <<n \div Limb, n % Limb>>
WideLess(a, b) == a[1] < b[1] \/ (a[1] = b[1] /\ a[2] < b[2])
WidePred(a) == IF a[2] > 0 THEN <<a[1], a[2] - 1>> ELSE <<a[1] - 1, Limb - 1>>

\* The draws of the model: the least, the middle and the greatest value of a range.
Quantiles == {"least", "middle", "greatest"}

\* rng.gen_range(low..high) at quantile q
sample(low, high, q) ==
    CASE q = "least" -> low
      [] q = "middle" -> (low + high) \div 2
      [] q = "greatest" -> high - 1

\* rng.gen_range(40000..5000000000i64) as u64, line 143
target_value_low == Wide(40000)
target_value_high == <<5 * 10 ^ 4, 0>>
sample_target_value(q) ==
    CASE q = "least" -> target_value_low
      [] q = "middle" -> <<(target_value_low[1] + target_value_high[1]) \div 2, 0>>
      [] q = "greatest" -> WidePred(target_value_high)

\* lines 136-141
excess_strategy(n) ==
    CASE n = 0 -> "ToChange"
      [] n = 1 -> "ToFee"
      [] n = 2 -> "ToRecipient"
      [] OTHER -> "unreachable!()"

\* A generator whose change_weight is drawn from base_weight's range.
CoinSelectionOptCopiedRange(q) ==
    [target_value |-> sample_target_value(q),
     target_feerate |-> sample(10, 50, q),
     long_term_feerate |-> <<"Some", sample(1, 10, q)>>,
     min_absolute_fee |-> sample(1, 20, q),
     base_weight |-> sample(1, 30, q),
     change_weight |-> sample(1, 30, q),
     change_cost |-> sample(1, 20, q),
     avg_input_weight |-> sample(1, 10, q),
     avg_output_weight |-> sample(1, 10, q),
     min_change_value |-> sample(100, 1000, q),
     excess_strategy |-> excess_strategy(sample(0, 3, q))]

\* lines 142-154.  Fee rates are floats: target_feerate is kept in tenths.
CoinSelectionOpt(q) ==
    [target_value |-> sample_target_value(q),
     target_feerate |-> sample(10, 50, q),
     long_term_feerate |-> <<"Some", sample(1, 10, q)>>,
     min_absolute_fee |-> sample(1, 20, q),
     base_weight |-> sample(1, 30, q),
     change_weight |-> sample(5, 30, q),
     change_cost |-> sample(1, 20, q),
     avg_input_weight |-> sample(1, 10, q),
     avg_output_weight |-> sample(1, 10, q),
     min_change_value |-> sample(100, 1000, q),
     excess_strategy |-> excess_strategy(sample(0, 3, q))]

\* `for _ in 0..5`, line 134
OptionCount == 5

\* lines 131-132
create_select_options ==
    /\ pc = "create_select_options"
    /\ coin_select_options_vec' = <<>>
    /\ pc' = "for_options"
    /\ UNCHANGED <<file, stdout, err, decode_vars, build_vars, select_calls, results>>

\* lines 134-155: one configuration
coin_select_options_vec_push ==
    /\ pc = "for_options"
    /\ Len(coin_select_options_vec) < OptionCount
    /\ \E q \in Quantiles :
          IF CoinSelectionOpt(q).excess_strategy = "unreachable!()"
          THEN Panic("entered unreachable code") /\ UNCHANGED coin_select_options_vec
          ELSE /\ coin_select_options_vec' =
                      Append(coin_select_options_vec, CoinSelectionOpt(q))
               /\ UNCHANGED <<pc, stdout, err>>
    /\ UNCHANGED <<file, decode_vars, build_vars, select_calls, results>>

\* line 156, and main's line 219
create_select_options_return ==
    /\ pc = "for_options"
    /\ Len(coin_select_options_vec) = OptionCount
    /\ pc' = "perform_select_coin"
    /\ UNCHANGED <<file, stdout, err, decode_vars, build_vars, trial_vars>>

-----------------------------------------------------------------------------
(* perform_select_coin, lines 159-190, called at line 227 *)

\* `.take(5)`, line 173
TakeCount == 5

Min(a, b) == IF a < b THEN a ELSE b

\* A loop that gives up at the first failed selection.
return_after_select_error == "done"
\* What select_coin's failure does to the loop: nothing, lines 185-187 only print.
after_select_error == "perform_select_coin"

\* lines 173-189: one trial; select_coin answers Ok or Err as it pleases
select_coin ==
    /\ pc = "perform_select_coin"
    /\ Len(select_calls) < Min(Len(coin_select_options_vec), TakeCount)
    /\ \E outcome \in {"Ok", "Err"} :
          /\ select_calls' = Append(select_calls, Len(select_calls) + 1)
          /\ results' = Append(results, outcome)
          /\ pc' = IF outcome = "Err" THEN after_select_error ELSE "perform_select_coin"
    /\ UNCHANGED <<file, stdout, err, decode_vars, build_vars, coin_select_options_vec>>

\* line 190, and the end of main
perform_select_coin_return ==
    /\ pc = "perform_select_coin"
    /\ Len(select_calls) = Min(Len(coin_select_options_vec), TakeCount)
    /\ pc' = "done"
    /\ UNCHANGED <<file, stdout, err, decode_vars, build_vars, trial_vars>>

-----------------------------------------------------------------------------
(* Specifications *)

Fresh ==
    /\ stdout = <<>>
    /\ err = NoErr
    /\ tx_vec = <<>> /\ tx_in_vec = <<>> /\ tx_out_vec = <<>>
    /\ examined = <<>>
    /\ unique_numbers = {}
    /\ creation_sequence = NoSeq
    /\ output_group_vec = <<>>
    /\ overflow_checks = Unset
    /\ coin_select_options_vec = <<>>
    /\ select_calls = <<>>
    /\ results = <<>>

\* The whole program: main run on a file that is missing, unreadable or readable.
Init ==
    /\ pc = "main"
    /\ file \in {InputFile("missing", <<>>), InputFile("unreadable", <<>>)}
                \cup {InputFile("ok", txs) : txs \in SeqsUpTo(FileRecords, MaxFileTx)}
    /\ transactions = <<>>
    /\ utxos = <<>>
    /\ Fresh

Decode ==
    \/ json_to_transaction
    \/ for_tx_json
    \/ for_tx_inp
    \/ for_tx_inp_end
    \/ for_tx_op
    \/ tx_vec_push
    \/ json_to_transaction_return

Build ==
    \/ create_outputgroup
    \/ for_tx
    \/ loop_gen_range
    \/ output_group_vec_push
    \/ create_outputgroup_return

Options ==
    \/ create_select_options
    \/ coin_select_options_vec_push
    \/ create_select_options_return

Trials ==
    \/ select_coin
    \/ perform_select_coin_return

Next == read_json_file \/ Decode \/ Build \/ Options \/ Trials

Spec == Init /\ [][Next]_vars

\* json_to_transaction alone, on every text of up to MaxDecodeTx records.
InitDecode ==
    /\ pc = "json_to_transaction"
    /\ file \in {InputFile("ok", txs) : txs \in SeqsUpTo(DecodeRecords, MaxDecodeTx)}
    /\ transactions = <<>>
    /\ utxos = <<>>
    /\ Fresh

SpecDecode == InitDecode /\ [][Decode]_vars

\* create_outputgroup alone, on every batch of up to MaxBuildTx transactions.
Transaction(input, output) ==
    [version |-> 2, lock_time |-> 0, input |-> input, output |-> output]
TxIn(vout) ==
    [previous_output |-> [txid |-> Txid_from_str(GoodTxid).val, vout |-> vout],
     script_sig |-> ScriptBuf_from_hex(GoodScript).val,
     sequence |-> Sequence_from_hex(GoodSequence).val,
     witness |-> <<>>]
TxOut(sat) == [value |-> sat, script_pubkey |-> ScriptBuf_from_hex(GoodScript).val]

BuildTransactions ==
    { Transaction(<<TxIn(0)>>, <<TxOut(1)>>),
      Transaction(<<>>, <<TxOut(1), TxOut(2)>>),
      Transaction(<<TxIn(0), TxIn(1)>>,
                  <<TxOut(AmountMaxSat), TxOut(AmountMaxSat), TxOut(AmountMaxSat)>>) }

InitBuild ==
    /\ pc = "create_outputgroup"
    /\ file = InputFile("ok", <<>>)
    /\ transactions \in SeqsUpTo(BuildTransactions, MaxBuildTx)
    /\ utxos = <<>>
    /\ Fresh

SpecBuild == InitBuild /\ [][Build]_vars

\* A draw that returns a value not yet in use.
loop_gen_range_unused == loop_gen_range /\ creation_sequence' \notin unique_numbers

\* The program runs on, and the random source is fair: while the draw is
\* repeated, a value not yet in use is eventually drawn.
FairSpecBuild == SpecBuild /\ WF_vars(Build) /\ WF_vars(loop_gen_range_unused)

-----------------------------------------------------------------------------
(* Claims *)

Ordinals(units) == {units[i].creation_sequence : i \in 1..Len(units)}
BuildReturned == pc = "create_select_options"

\* C1: the tie-break ordinals of the units create_outputgroup returns for a batch
\* of N transactions are pairwise distinct and are exactly {0, ..., N-1}, and at
\* every point of the build the ordinals assigned so far are pairwise distinct
\* and lie in [0, N).
C1_OrdinalsArePermutation ==
    /\ \A i, j \in 1..Len(output_group_vec) :
          i # j => output_group_vec[i].creation_sequence # output_group_vec[j].creation_sequence
    /\ Ordinals(output_group_vec) \subseteq 0..(Len(transactions) - 1)
    /\ BuildReturned =>
          /\ Ordinals(utxos) = 0..(Len(transactions) - 1)
          /\ Cardinality(Ordinals(utxos)) = Len(utxos)

\* C1's case: a batch of three came back with an order other than the batch's own.
C1_Witness ==
    /\ BuildReturned
    /\ Len(utxos) = 3
    /\ utxos[1].creation_sequence = 2
    /\ utxos[2].creation_sequence = 0

Overflows(tx) == SumSat(tx.output) >= SatModulus

\* C5: create_outputgroup returns, for every batch of N transactions, exactly N
\* units, the unit at position i carrying the exact sum of the output amounts and
\* the number of inputs of the transaction at position i.
C5_UnitsMirrorTransactions ==
    /\ pc # "panicked"
    /\ BuildReturned =>
          /\ Len(utxos) = Len(transactions)
          /\ \A i \in 1..Len(utxos) :
                /\ utxos[i].value = SumSat(transactions[i].output)
                /\ utxos[i].input_count = Len(transactions[i].input)

\* The retry loop has room: whenever control is in it, exactly as many ordinals
\* are in use as units are built, a transaction is left, and some value of the
\* range is unused; no error is raised and no draw is made from an empty range.
LoopHasRoom ==
    /\ pc = "loop" =>
          /\ Cardinality(unique_numbers) = Len(output_group_vec)
          /\ Len(output_group_vec) < Len(transactions)
          /\ gen_range(0, total_transactions) \ unique_numbers # {}
    /\ err = NoErr
    /\ "cannot sample empty range" \notin {stdout[i] : i \in 1..Len(stdout)}

\* C9: each time the retry loop is entered for the k-th transaction exactly k
\* ordinals are in use and k < N, so a value is unused; under a fair random
\* source every loop is left again and the build returns all N units; no
\* exhaustion error is ever raised.
C9_LoopTerminatesAndBuildReturns ==
    /\ []LoopHasRoom
    /\ (pc = "loop") ~> (pc # "loop")
    /\ <>(BuildReturned /\ Len(utxos) = Len(transactions))

\* The part of C9 that is about the loop alone: it has room and is always left.
LoopTerminates ==
    /\ []LoopHasRoom
    /\ (pc = "loop") ~> (pc # "loop")

-----------------------------------------------------------------------------
(* Claims about json_to_transaction *)

DecodeReturned == pc \in {"exit", "create_outputgroup"}

RECURSIVE InputFields(_, _, _)
\* The fields of the first n inputs of record r, in the order the loop reads them.
InputFields(r, n, names) ==
    IF n = 0 THEN <<>>
    ELSE InputFields(r, n - 1, names) \o [k \in 1..Len(names) |-> <<r, "inputs", n, names[k]>>]

RECURSIVE OutputFields(_, _, _)
OutputFields(r, n, names) ==
    IF n = 0 THEN <<>>
    ELSE OutputFields(r, n - 1, names) \o [k \in 1..Len(names) |-> <<r, "outputs", n, names[k]>>]

RECURSIVE Traversal(_, _, _, _)
\* The fields of the first n records, record by record, inputs before outputs.
Traversal(txs, n, inNames, outNames) ==
    IF n = 0 THEN <<>>
    ELSE Traversal(txs, n - 1, inNames, outNames)
            \o InputFields(n, Len(txs[n].inputs), inNames)
            \o OutputFields(n, Len(txs[n].outputs), outNames)

\* Every field a record is valid or invalid by, and the fields the loop converts.
AllFields(txs) ==
    Traversal(txs, Len(txs), <<"txid", "vout", "script_sig", "sequence">>,
              <<"value", "script_pubkey">>)
ConvertedFields(txs) ==
    Traversal(txs, Len(txs), <<"txid", "script_sig", "sequence">>, <<"value", "script_pubkey">>)

FieldText(txs, at) ==
    IF at[2] = "inputs" THEN txs[at[1]].inputs[at[3]][at[4]]
    ELSE txs[at[1]].outputs[at[3]][at[4]]

\* What the documented format asks of each field.
FieldValid(txs, at) ==
    LET text == FieldText(txs, at)
    IN  CASE at[4] = "txid" -> Len(text) = TxidHexLen /\ IsHex(text)
          [] at[4] = "vout" -> text >= 0
          [] at[4] \in {"script_sig", "script_pubkey"} -> Len(text) % 2 = 0 /\ IsHex(text)
          [] at[4] = "sequence" ->
                Len(text) \in 1..SequenceHexLen /\ IsHex(text)
          [] at[4] = "value" ->
                text >= 0 /\ text % TenthsPerSat = 0 /\ text \div TenthsPerSat <= AmountMaxSat

\* The index in `fields` of the first invalid field; 0 when all are valid.
FirstInvalid(txs, fields) ==
    LET bad == {k \in 1..Len(fields) : ~FieldValid(txs, fields[k])}
    IN  IF bad = {} THEN 0 ELSE CHOOSE k \in bad : \A m \in bad : k <= m

\* The field an error value came from.
CauseOf(e) ==
    IF e.source = "serde_json::from_str" THEN e.position ELSE examined[Len(examined)]

HexPairs(text) == [i \in 1..(Len(text) \div 2) |-> <<text[2 * i - 1], text[2 * i]>>]

\* The complete result: one transaction per record, inputs and outputs in order.
DecodedInput(tx_inp) ==
    [previous_output |-> [txid |-> HexPairs(tx_inp.txid), vout |-> tx_inp.vout],
     script_sig |-> HexPairs(tx_inp.script_sig),
     sequence |-> tx_inp.sequence,
     witness |-> tx_inp.witness]
DecodedOutput(tx_op) ==
    [value |-> tx_op.value \div TenthsPerSat, script_pubkey |-> HexPairs(tx_op.script_pubkey)]
Decoded(txs) ==
    [r \in 1..Len(txs) |->
        [version |-> 2, lock_time |-> 0,
         input |-> [i \in 1..Len(txs[r].inputs) |-> DecodedInput(txs[r].inputs[i])],
         output |-> [i \in 1..Len(txs[r].outputs) |-> DecodedOutput(txs[r].outputs[i])]]]

\* C4 as stated: json_to_transaction returns an error or the complete ordered
\* sequence; if any field of any record is invalid the error comes from the first
\* invalid field in traversal order, no later field is examined, and no
\* transaction is returned.
C4_FirstInvalidFieldAborts ==
    DecodeReturned =>
        LET fields == AllFields(file.txs)
            k == FirstInvalid(file.txs, fields)
        IN  IF k = 0
            THEN err = NoErr /\ transactions = Decoded(file.txs)
            ELSE /\ err # NoErr
                 /\ transactions = <<>>
                 /\ CauseOf(err) = fields[k]
                 /\ \A m \in 1..Len(examined) :
                       \E j \in 1..k : examined[m] = fields[j]

\* C4 as amended: deserialization comes first and reports the first field of the
\* wrong type in the text, with no field converted; only a text that deserializes
\* is converted field by field, and then the first invalid converted field in
\* traversal order is the error, the fields before it and no field after it have
\* been converted, and no transaction is returned.  With no invalid field the
\* result is the complete ordered sequence.
C4_DeserializeThenFirstInvalidField ==
    DecodeReturned =>
        LET all == AllFields(file.txs)
            vouts == SelectSeq(all, LAMBDA at : at[4] = "vout")
            v == FirstInvalid(file.txs, vouts)
            fields == ConvertedFields(file.txs)
            k == FirstInvalid(file.txs, fields)
        IN  IF v # 0
            THEN /\ err.source = "serde_json::from_str"
                 /\ CauseOf(err) = vouts[v]
                 /\ examined = <<>>
                 /\ transactions = <<>>
            ELSE IF k # 0
            THEN /\ err \notin {NoErr}
                 /\ err.source # "serde_json::from_str"
                 /\ examined = SubSeq(fields, 1, k)
                 /\ transactions = <<>>
            ELSE /\ err = NoErr
                 /\ examined = fields
                 /\ transactions = Decoded(file.txs)

\* C4's case: the second record's amount is invalid, after a first record that
\* decoded, and nothing is returned.
C4_Witness ==
    /\ pc = "exit"
    /\ err.source = "Amount::from_btc"
    /\ examined[Len(examined)][1] = 2
    /\ transactions = <<>>

\* What an error value itself says of the place it came from; 0 and "" when it
\* says nothing.
ErrorRecordIndex(e) == IF "position" \in DOMAIN e THEN e.position[1] ELSE 0
ErrorField(e) == IF "position" \in DOMAIN e THEN e.position[4] ELSE ""

ConversionOf(field) ==
    CASE field = "txid" -> "Txid::from_str"
      [] field \in {"script_sig", "script_pubkey"} -> "ScriptBuf::from_hex"
      [] field = "sequence" -> "Sequence::from_hex"
      [] field = "value" -> "Amount::from_btc"

-----------------------------------------------------------------------------
(* Claims about the whole run *)

\* C2: when reading the file fails or json_to_transaction returns an error, the
\* run ends with select_coin never called, no unit built and no configuration
\* generated.
C2_FatalErrorRunsNothing ==
    err # NoErr =>
        /\ pc = "exit"
        /\ select_calls = <<>> /\ results = <<>>
        /\ output_group_vec = <<>> /\ utxos = <<>> /\ unique_numbers = {}
        /\ coin_select_options_vec = <<>>

\* C2's case: a script of odd hex length ended the run.
C2_Witness ==
    /\ pc = "exit"
    /\ err.source = "ScriptBuf::from_hex"
    /\ err.reason = "OddLengthString"
    /\ stdout = <<"Error parsing json">>

\* C3: select_coin is called exactly once for each configuration of the batch, in
\* increasing index order, whatever the outcomes: after a failure the loop is
\* still in perform_select_coin with the next call enabled, and the function
\* returns only when every configuration has been tried.
C3_OneTrialPerConfiguration ==
    /\ select_calls = [i \in 1..Len(select_calls) |-> i]
    /\ Len(results) = Len(select_calls)
    /\ Len(select_calls) <= Len(coin_select_options_vec)
    /\ select_calls # <<>> => pc \in {"perform_select_coin", "done"}
    /\ pc = "done" => Len(select_calls) = Len(coin_select_options_vec)
    /\ (pc = "perform_select_coin" /\ Len(select_calls) < Len(coin_select_options_vec))
          => ENABLED select_coin

\* C3's case: the first and third selections failed and all five were made.
C3_Witness ==
    /\ pc = "done"
    /\ select_calls = <<1, 2, 3, 4, 5>>
    /\ results = <<"Err", "Ok", "Err", "Ok", "Ok">>

\* C6: when one transaction's output amounts sum past the integer domain, the
\* build fails with a NumericOverflow error: no panic, no unit with a wrapped
\* value, no unit list returned, and no trial.
C6_OverflowIsAnError ==
    (\E i \in 1..Len(transactions) : Overflows(transactions[i])) =>
        /\ pc \notin {"panicked", "create_select_options", "for_options",
                      "perform_select_coin", "done"}
        /\ \A i \in 1..Len(output_group_vec) : ~Overflows(transactions[i])
        /\ utxos = <<>>
        /\ select_calls = <<>>
        /\ pc = "exit" => err.source = "NumericOverflow"

InRange(x, low, high) == low <= x /\ x < high

\* C7: every configuration create_select_options has generated has each integer
\* field in its documented half-open range, a long-term fee rate that is present,
\* and one of the three excess policies; and the batch it returns holds exactly
\* five configurations.
C7_ConfigurationsInRange ==
    /\ \A i \in 1..Len(coin_select_options_vec) :
          LET c == coin_select_options_vec[i]
          IN  /\ ~WideLess(c.target_value, <<0, 40000>>)
              /\ WideLess(c.target_value, <<50000, 0>>)
              /\ c.target_value[2] \in 0..(Limb - 1)
              /\ c.long_term_feerate[1] = "Some"
              /\ InRange(c.long_term_feerate[2], 1, 10)
              /\ InRange(c.min_absolute_fee, 1, 20)
              /\ InRange(c.base_weight, 1, 30)
              /\ InRange(c.change_weight, 5, 30)
              /\ InRange(c.change_cost, 1, 20)
              /\ InRange(c.avg_input_weight, 1, 10)
              /\ InRange(c.avg_output_weight, 1, 10)
              /\ InRange(c.min_change_value, 100, 1000)
              /\ c.excess_strategy \in {"ToChange", "ToFee", "ToRecipient"}
    /\ Len(coin_select_options_vec) <= 5
    /\ pc \in {"perform_select_coin", "done"} => Len(coin_select_options_vec) = 5

\* C7's case: a returned batch with a configuration at the least and one at the
\* greatest value of every range.
C7_Witness ==
    /\ pc = "perform_select_coin"
    /\ \E i, j \in 1..Len(coin_select_options_vec) :
          /\ coin_select_options_vec[i].target_value = <<0, 40000>>
          /\ coin_select_options_vec[i].change_weight = 5
          /\ coin_select_options_vec[j].target_value = <<49999, 99999>>
          /\ coin_select_options_vec[j].min_change_value = 999
          /\ coin_select_options_vec[j].excess_strategy = "ToRecipient"

EmptyBatch == file.status = "ok" /\ file.txs = <<>>

\* C10: on an empty batch no draw is made and nothing fails; the run goes on to
\* its end, where the units are empty, five configurations were generated and
\* select_coin was called once for each.
C10_EmptyBatchRuns ==
    EmptyBatch =>
        /\ pc \notin {"loop", "push", "panicked", "exit"}
        /\ creation_sequence = NoSeq
        /\ err = NoErr
        /\ output_group_vec = <<>> /\ utxos = <<>>
        /\ pc = "done" \/ ENABLED Next
        /\ pc = "done" =>
              /\ Len(coin_select_options_vec) = 5
              /\ select_calls = <<1, 2, 3, 4, 5>>

\* C10's case: the run on the empty batch is over, its five selections made.
C10_Witness ==
    /\ EmptyBatch
    /\ pc = "done"
    /\ transactions = <<>>
    /\ Len(results) = 5

=============================================================================
